---- MODULE Spec2Model ----
(***************************************************************************)
(* The web-request ledger of the background script (src/src/background.ts, *)
(* lines 379-574): the array webRequests, the map requestStartTimes, the   *)
(* four webRequest listeners and the GET_WEB_REQUESTS / CLEAR_WEB_REQUESTS *)
(* branches of the runtime.onMessage listener.                             *)
(*                                                                         *)
(* Conventions.  An optional value (a field that may be undefined) is a    *)
(* sequence of length at most one: None is undefined, Some(v) is v.        *)
(* Strings the code inspects character by character (header names and     *)
(* values, the status line) are sequences of one-character strings;        *)
(* strings the code only copies (url, method, type, error) are TLA+        *)
(* strings.  Array indices are 1-based; findIndex still answers -1 when    *)
(* nothing matches.                                                        *)
(***************************************************************************)
EXTENDS Integers, Sequences, FiniteSets, TLC

VARIABLES
  webRequests,        \* background.ts:380  the ledger, newest first
  requestStartTimes,  \* background.ts:400  Map<requestId, Date.now() at start>
  now,                \* the last value Date.now() returned
  reply,              \* the last response passed to sendResponse
  snapshot,           \* the data of the last GET_WEB_REQUESTS response, as the caller holds it
  lastOp,             \* the listener that ran last, and the event it was given
  events,             \* number of events and messages delivered so far
  deliveries,         \* <<id, timestamp>> of the onBeforeRequest events since the last clear, oldest first
  exch,               \* per request id: how far the current exchange with that id has come
  promise,            \* browser-api.ts:304 and 331: the promise of the last getWebRequests or clearWebRequests call
  store,              \* cookie-store.ts:46-55  the state of useCookieStore
  storeLog            \* what the user did to the store so far

vars == <<webRequests, requestStartTimes, now, reply, snapshot, lastOp, events, deliveries, exch,
          promise, store, storeLog>>

----------------------------------------------------------------------------
(* Bounds of the model *)

MaxClock == 2
MaxEvents == 3

(* The cap of the ledger, background.ts:441-442 *)
MAX_RECORDS == 500

----------------------------------------------------------------------------
(* Optional values *)

None == <<>>
Some(v) == <<v>>
IsSome(o) == o /= <<>>
Get(o) == o[1]

Min(a, b) == IF a <= b THEN a ELSE b

----------------------------------------------------------------------------
(* Strings as character sequences, and the JavaScript string functions the *)
(* listeners call on them.                                                 *)

Digits == <<"0", "1", "2", "3", "4", "5", "6", "7", "8", "9">>
IsDigit(c) == \E d \in 1..10 : Digits[d] = c
DigitVal(c) == (CHOOSE d \in 1..10 : Digits[d] = c) - 1

IsSpace(c) == c \in {" ", "\t", "\n", "\r"}

Upper == <<"A", "B", "C", "D", "E", "F", "G", "H", "I", "J", "K", "L", "M",
           "N", "O", "P", "Q", "R", "S", "T", "U", "V", "W", "X", "Y", "Z">>
Lower == <<"a", "b", "c", "d", "e", "f", "g", "h", "i", "j", "k", "l", "m",
           "n", "o", "p", "q", "r", "s", "t", "u", "v", "w", "x", "y", "z">>

LowerChar(c) ==
  IF \E k \in 1..26 : Upper[k] = c
  THEN Lower[CHOOSE k \in 1..26 : Upper[k] = c]
  ELSE c

(* String.prototype.toLowerCase *)
toLowerCase(s) == [i \in 1..Len(s) |-> LowerChar(s[i])]

RECURSIVE SkipSpaces(_)
SkipSpaces(s) ==
  IF s /= <<>> /\ IsSpace(Head(s)) THEN SkipSpaces(Tail(s)) ELSE s

RECURSIVE DigitPrefix(_)
DigitPrefix(s) ==
  IF s /= <<>> /\ IsDigit(Head(s)) THEN <<Head(s)>> \o DigitPrefix(Tail(s)) ELSE <<>>

RECURSIVE DecimalValue(_, _)
DecimalValue(ds, acc) ==
  IF ds = <<>> THEN acc ELSE DecimalValue(Tail(ds), acc * 10 + DigitVal(Head(ds)))

(* A JavaScript number that parseInt can answer: an integer or NaN. *)
Num(n) == [kind |-> "num", val |-> n]
NaN == [kind |-> "nan", val |-> 0]

(* parseInt(s) with the default radix on a string without a 0x prefix:     *)
(* leading white space is skipped, one sign is accepted, the longest run   *)
(* of decimal digits is read; no digit at all gives NaN.                   *)
parseInt(s) ==
  LET t == SkipSpaces(s)
      neg == t /= <<>> /\ Head(t) = "-"
      u == IF t /= <<>> /\ Head(t) \in {"-", "+"} THEN Tail(t) ELSE t
      ds == DigitPrefix(u)
  IN IF ds = <<>> THEN NaN
     ELSE Num(IF neg THEN 0 - DecimalValue(ds, 0) ELSE DecimalValue(ds, 0))

(* String.prototype.split(" "): the pieces between single spaces. *)
RECURSIVE SplitSpace(_, _)
SplitSpace(s, cur) ==
  IF s = <<>> THEN <<cur>>
  ELSE IF Head(s) = " " THEN <<cur>> \o SplitSpace(Tail(s), <<>>)
  ELSE SplitSpace(Tail(s), Append(cur, Head(s)))

(* Array.prototype.join(" ") *)
RECURSIVE JoinSpace(_)
JoinSpace(parts) ==
  IF parts = <<>> THEN <<>>
  ELSE IF Len(parts) = 1 THEN parts[1]
  ELSE parts[1] \o <<" ">> \o JoinSpace(Tail(parts))

(* Array.prototype.slice(2) *)
SliceFrom2(a) == IF Len(a) <= 2 THEN <<>> ELSE SubSeq(a, 3, Len(a))

(* details.statusLine?.split(" ").slice(2).join(" ") || "" *)
StatusTextOf(statusLine) ==
  IF IsSome(statusLine) THEN JoinSpace(SliceFrom2(SplitSpace(Get(statusLine), <<>>)))
  ELSE <<>>

(* Number.prototype.toString on a natural number: the decimal digits.     *)
RECURSIVE Decimal(_)
Decimal(n) ==
  IF n < 10 THEN <<Digits[n + 1]>> ELSE Decimal(n \div 10) \o <<Digits[(n % 10) + 1]>>

----------------------------------------------------------------------------
(* The events the browser delivers.  Every event carries a requestId; the  *)
(* other members of details are drawn from the small sets below.           *)

Ids == {1, 2}

(* One element of details.requestBody.raw.  Its member bytes is an         *)
(* ArrayBuffer (kind "buffer", with the byte values), is missing (kind     *)
(* "undefined": the chunk names a file), or is a value TextDecoder.decode  *)
(* does not accept (kind "other").                                         *)
Chunk(kind, bytes) == [kind |-> kind, bytes |-> bytes]

(* details of webRequest.onBeforeRequest: url, method, type, initiator     *)
(* (a string in the webRequest API) and requestBody (raw: UploadData[],    *)
(* formData: the entries of an object of string arrays).                   *)
StartInputs == <<
  [url |-> "https://example.com/a.js", method |-> "GET", type |-> "script",
   initiator |-> None, requestBody |-> None],
  [url |-> "https://example.com/api", method |-> "POST", type |-> "xmlhttprequest",
   initiator |-> Some("https://example.com"),
   requestBody |-> Some([raw |-> Some(<< Chunk("buffer", <<104, 105>>) >>), formData |-> None])]
>>

(* Further details of onBeforeRequest, with the bodies the listener does   *)
(* not turn into their text: a raw chunk whose bytes are no UTF-8 (the     *)
(* lone byte 0xFF), a raw chunk whose member bytes is no buffer, and form  *)
(* data.                                                                   *)
BodyInputs == <<
  [url |-> "https://example.com/upload", method |-> "POST", type |-> "xmlhttprequest",
   initiator |-> None,
   requestBody |-> Some([raw |-> Some(<< Chunk("buffer", <<255>>) >>), formData |-> None])],
  [url |-> "https://example.com/upload", method |-> "PUT", type |-> "xmlhttprequest",
   initiator |-> None,
   requestBody |-> Some([raw |-> Some(<< Chunk("other", <<>>) >>), formData |-> None])],
  [url |-> "https://example.com/form", method |-> "POST", type |-> "main_frame",
   initiator |-> None,
   requestBody |-> Some([raw |-> None,
                         formData |-> Some(<< [key |-> <<"a">>, values |-> << <<"1">> >>] >>)])]
>>

StartDetails == StartInputs \o BodyInputs

(* details.requestHeaders of webRequest.onBeforeSendHeaders: HttpHeader[]  *)
(* with name and optional value, or undefined.                             *)
HeaderInputs == <<
  Some(<< [name |-> <<"A", "c", "c", "e", "p", "t">>, value |-> Some(<<"*", "/", "*">>)] >>),
  Some(<< [name |-> <<"X">>, value |-> Some(<<"1">>)],
          [name |-> <<"X">>, value |-> None] >>),
  None
>>

(* details of webRequest.onCompleted: statusCode, statusLine,              *)
(* responseHeaders and fromCache.  contentLength is the number the server  *)
(* announced; the header value is its decimal rendering.                   *)
ContentLengthHeader(n) ==
  [name |-> <<"c", "o", "n", "t", "e", "n", "t", "-", "l", "e", "n", "g", "t", "h">>,
   value |-> Some(Decimal(n))]

CompletedInputs == <<
  [statusCode |-> 200,
   statusLine |-> Some(<<"H", "T", "T", "P", "/", "1", ".", "1", " ", "2", "0", "0", " ", "O", "K">>),
   contentLength |-> Some(1234),
   responseHeaders |-> Some(<< ContentLengthHeader(1234) >>),
   fromCache |-> Some(FALSE)],
  [statusCode |-> 404,
   statusLine |-> None,
   contentLength |-> None,
   responseHeaders |-> Some(<< [name |-> <<"E", "T", "a", "g">>, value |-> None] >>),
   fromCache |-> Some(TRUE)]
>>

(* The name of a header element that has no member name: h.name is        *)
(* undefined, headers[h.name] is the property "undefined" and              *)
(* h.name.toLowerCase() throws a TypeError.                                *)
Undefined == <<"undefined">>

ContentLengthText(text) ==
  [name |-> <<"C", "o", "n", "t", "e", "n", "t", "-", "L", "e", "n", "g", "t", "h">>,
   value |-> Some(text)]

(* Further details of onCompleted: a content-length that is no number, a   *)
(* content-length with an empty value, and a response header without a     *)
(* name.                                                                   *)
HeaderFaultInputs == <<
  [statusCode |-> 200,
   statusLine |-> Some(<<"H", "T", "T", "P", "/", "1", ".", "1", " ", "2", "0", "0", " ", "O", "K">>),
   contentLength |-> None,
   responseHeaders |-> Some(<< ContentLengthText(<<"a", "b", "c">>) >>),
   fromCache |-> None],
  [statusCode |-> 200,
   statusLine |-> Some(<<"H", "T", "T", "P", "/", "1", ".", "1", " ", "2", "0", "0", " ", "O", "K">>),
   contentLength |-> None,
   responseHeaders |-> Some(<< ContentLengthText(<<>>) >>),
   fromCache |-> None],
  [statusCode |-> 200,
   statusLine |-> Some(<<"H", "T", "T", "P", "/", "1", ".", "1", " ", "2", "0", "0", " ", "O", "K">>),
   contentLength |-> None,
   responseHeaders |-> Some(<< [name |-> Undefined, value |-> Some(<<"1">>)] >>),
   fromCache |-> None]
>>

CompletedDetails == CompletedInputs \o HeaderFaultInputs

(* details.error of webRequest.onErrorOccurred *)
ErrorInputs == << "net::ERR_CONNECTION_RESET" >>

----------------------------------------------------------------------------
(* The records of the ledger *)

(* TextDecoder.decode of one chunk (UTF-8, not fatal): a byte of the       *)
(* ASCII letters used here gives its character, any other byte the         *)
(* replacement character U+FFFD; decode(undefined) is the empty string.    *)
REPLACEMENT == "U+FFFD"
DecodeByte(b) == IF b = 104 THEN "h" ELSE IF b = 105 THEN "i" ELSE REPLACEMENT
Decode(chunk) ==
  IF chunk.kind = "buffer" THEN [i \in 1..Len(chunk.bytes) |-> DecodeByte(chunk.bytes[i])]
  ELSE <<>>

(* decode throws a TypeError when its argument is no buffer *)
DecodeThrows(chunk) == chunk.kind = "other"

(* Array.prototype.join("") and join(sep) on strings *)
RECURSIVE JoinEmpty(_)
JoinEmpty(parts) == IF parts = <<>> THEN <<>> ELSE Head(parts) \o JoinEmpty(Tail(parts))

RECURSIVE JoinWith(_, _)
JoinWith(parts, sep) ==
  IF parts = <<>> THEN <<>>
  ELSE IF Len(parts) = 1 THEN parts[1]
  ELSE parts[1] \o sep \o JoinWith(Tail(parts), sep)

Quoted(str) == <<"\"">> \o str \o <<"\"">>

(* JSON.stringify(formData, null, 2) for formData: { [key]: string[] },    *)
(* given as the sequence of its entries; the strings need no escaping.     *)
StringifyValues(values) ==
  IF values = <<>> THEN <<"[", "]">>
  ELSE <<"[", "\n">>
       \o JoinWith([k \in 1..Len(values) |-> <<" ", " ", " ", " ">> \o Quoted(values[k])],
                   <<",", "\n">>)
       \o <<"\n", " ", " ", "]">>

StringifyFormData(entries) ==
  IF entries = <<>> THEN <<"{", "}">>
  ELSE <<"{", "\n">>
       \o JoinWith([k \in 1..Len(entries) |->
                      <<" ", " ">> \o Quoted(entries[k].key) \o <<":", " ">>
                      \o StringifyValues(entries[k].values)],
                   <<",", "\n">>)
       \o <<"\n", "}">>

BinaryData == <<"[", "B", "i", "n", "a", "r", "y", " ", "d", "a", "t", "a", "]">>

(* background.ts:412-426 and 435: the text of the request body, undefined  *)
(* when it is empty.                                                       *)
RequestBodyOf(body) ==
  LET raw == Get(Get(body).raw)
      text == IF ~IsSome(body) THEN <<>>
              ELSE IF IsSome(Get(body).raw)
                   THEN IF \E k \in 1..Len(raw) : DecodeThrows(raw[k])
                        THEN BinaryData
                        ELSE JoinEmpty([k \in 1..Len(raw) |-> Decode(raw[k])])
              ELSE IF IsSome(Get(body).formData)
                   THEN StringifyFormData(Get(Get(body).formData))
              ELSE <<>>
  IN IF text = <<>> THEN None ELSE Some(text)

(* details.initiator?.url: initiator is a string (or undefined), and a     *)
(* string has no url property.                                             *)
InitiatorUrl(initiator) == None

(* The object literal naming a status as well *)
NewRequestWithStatus(id, in, ts) ==
  [id |-> id, url |-> in.url, method |-> in.method, timestamp |-> ts,
   type |-> in.type, initiator |-> InitiatorUrl(in.initiator),
   requestBody |-> RequestBodyOf(in.requestBody),
   status |-> Some(0), statusText |-> None, duration |-> None, size |-> None,
   requestHeaders |-> None, responseHeaders |-> None, responseBody |-> None,
   fromCache |-> None, error |-> None]

(* background.ts:428-436: the object literal request; every member the     *)
(* literal does not name is undefined.                                     *)
NewRequest(id, in, ts) ==
  [id |-> id, url |-> in.url, method |-> in.method, timestamp |-> ts,
   type |-> in.type, initiator |-> InitiatorUrl(in.initiator),
   requestBody |-> RequestBodyOf(in.requestBody),
   status |-> None, statusText |-> None, duration |-> None, size |-> None,
   requestHeaders |-> None, responseHeaders |-> None, responseBody |-> None,
   fromCache |-> None, error |-> None]

(* Array.prototype.findLastIndex: the last match, or -1 *)
FindLastIndex(arr, id) ==
  IF \E i \in 1..Len(arr) : arr[i].id = id
  THEN CHOOSE i \in 1..Len(arr) : arr[i].id = id /\ \A j \in (i + 1)..Len(arr) : arr[j].id /= id
  ELSE -1

(* findIndex with the miss taken for the first element *)
FindIndexOrFirst(arr, id) ==
  IF \E i \in 1..Len(arr) : arr[i].id = id
  THEN CHOOSE i \in 1..Len(arr) : arr[i].id = id /\ \A j \in 1..(i - 1) : arr[j].id /= id
  ELSE IF arr = <<>> THEN -1 ELSE 1

(* Array.prototype.findIndex((r) => r.id === id): the first match, or -1 *)
FindIndex(arr, id) ==
  IF \E i \in 1..Len(arr) : arr[i].id = id
  THEN CHOOSE i \in 1..Len(arr) : arr[i].id = id /\ \A j \in 1..(i - 1) : arr[j].id /= id
  ELSE -1

(* headers[header.name] = header.value || "" for each header in turn: a    *)
(* later header of the same name overwrites an earlier one.                *)
HeadersObject(hs) ==
  LET list == IF IsSome(hs) THEN Get(hs) ELSE <<>>
      names == {list[k].name : k \in 1..Len(list)}
      last(n) == CHOOSE k \in 1..Len(list) :
                   list[k].name = n /\ \A m \in (k + 1)..Len(list) : list[m].name /= n
  IN [n \in names |-> IF IsSome(list[last(n)].value) THEN Get(list[last(n)].value) ELSE <<>>]

(* background.ts:492-494: responseHeaders?.find(h => lower(h.name) ===      *)
(* "content-length"), as an optional header.                               *)
FindContentLength(hs) ==
  LET list == IF IsSome(hs) THEN Get(hs) ELSE <<>>
      isCL(k) == toLowerCase(list[k].name) =
                   <<"c", "o", "n", "t", "e", "n", "t", "-", "l", "e", "n", "g", "t", "h">>
  IN IF \E k \in 1..Len(list) : isCL(k)
     THEN Some(list[CHOOSE k \in 1..Len(list) : isCL(k) /\ \A m \in 1..(k - 1) : ~isCL(m)])
     ELSE None

(* background.ts:492-494: find calls h.name.toLowerCase() on each header   *)
(* up to the first match; it throws at a header without a name.            *)
FindThrows(hs) ==
  LET list == IF IsSome(hs) THEN Get(hs) ELSE <<>>
      isCL(k) == toLowerCase(list[k].name) =
                   <<"c", "o", "n", "t", "e", "n", "t", "-", "l", "e", "n", "g", "t", "h">>
  IN \E k \in 1..Len(list) :
       list[k].name = Undefined /\ \A m \in 1..(k - 1) : ~isCL(m)

(* contentLength.value.length in the place of parseInt(contentLength.value) *)
SizeOfLength(hs) ==
  LET contentLength == FindContentLength(hs)
  IN IF IsSome(contentLength)
     THEN Some(Num(IF IsSome(Get(contentLength).value) THEN Len(Get(Get(contentLength).value)) ELSE 0))
     ELSE None

(* background.ts:501-503: contentLength ? parseInt(contentLength.value ||  *)
(* "0") : undefined                                                        *)
SizeOf(hs) ==
  LET contentLength == FindContentLength(hs)
  IN IF IsSome(contentLength)
     THEN Some(parseInt(IF IsSome(Get(contentLength).value) /\ Get(Get(contentLength).value) /= <<>>
                        THEN Get(Get(contentLength).value)
                        ELSE <<"0">>))
     ELSE None

(* The subtraction the wrong way round: startTime - Date.now() *)
DurationReversed(table, id, t) ==
  IF id \in DOMAIN table /\ table[id] /= 0 THEN Some(table[id] - t) ELSE None

(* background.ts:478-479 and 516-517: startTime ? Date.now() - startTime   *)
(* : undefined, where startTime is requestStartTimes.get(id).  A start     *)
(* time of 0 is falsy.                                                     *)
DurationOf(table, id, t) ==
  IF id \in DOMAIN table /\ table[id] /= 0 THEN Some(t - table[id]) ELSE None

(* Map.prototype.set and Map.prototype.delete on requestStartTimes *)
(* The entry written only when the map has none for the id *)
MapSetIfAbsent(table, id, t) ==
  [k \in DOMAIN table \cup {id} |-> IF k \in DOMAIN table THEN table[k] ELSE t]

MapSet(table, id, t) == [k \in DOMAIN table \cup {id} |-> IF k = id THEN t ELSE table[k]]

(* The entry left in the map *)
MapKeep(table, id) == table

(* The entry kept, its start time reset *)
MapZero(table, id) == [k \in DOMAIN table \cup {id} |-> IF k = id THEN 0 ELSE table[k]]

MapDelete(table, id) == [k \in DOMAIN table \ {id} |-> table[k]]
EmptyMap == [k \in {} |-> 0]

(* The map left as it is *)
MapClearNone(table) == table

(* Map.prototype.clear, background.ts:561 *)
MapClear(table) == EmptyMap

(* Array.prototype.push in the place of unshift *)
Push(arr, r) == Append(arr, r)

(* Array.prototype.unshift, background.ts:438 *)
Unshift(arr, r) == <<r>> \o arr

(* webRequests.splice(requestIndex, 0, r): r inserted, nothing replaced *)
InsertAt(arr, i, r) == SubSeq(arr, 1, i - 1) \o <<r>> \o SubSeq(arr, i, Len(arr))

(* webRequests.splice(requestIndex, 1): the record removed *)
RemoveAt(arr, i, r) == SubSeq(arr, 1, i - 1) \o SubSeq(arr, i + 1, Len(arr))

(* webRequests[0] = r: the head replaced, whatever the index *)
ReplaceHead(arr, i, r) == [arr EXCEPT ![1] = r]

(* webRequests[requestIndex] = r, background.ts:465, 496 and 525 *)
ReplaceAt(arr, i, r) == [arr EXCEPT ![i] = r]

(* The headers-sent update dropping the duration *)
HeadersRecordWithoutDuration(r, headers) ==
  [r EXCEPT !.requestHeaders = Some(headers), !.duration = None]

(* The record built anew from its start-time fields and the headers,      *)
(* without the spread                                                      *)
HeadersRecordFresh(r, headers) ==
  [r EXCEPT !.requestHeaders = Some(headers),
            !.status = None, !.statusText = None, !.duration = None, !.size = None,
            !.responseHeaders = None, !.fromCache = None, !.error = None]

(* The headers-sent update writing a status as well *)
HeadersRecordWithStatus(r, headers) ==
  [r EXCEPT !.requestHeaders = Some(headers), !.status = Some(200)]

(* background.ts:465-468: { ...webRequests[requestIndex], requestHeaders:  *)
(* headers }                                                               *)
HeadersRecord(r, headers) == [r EXCEPT !.requestHeaders = Some(headers)]

(* background.ts:496-506: the spread of the record with status,            *)
(* statusText, duration, size, responseHeaders and fromCache               *)
CompletedRecord(r, details, duration) ==
  [r EXCEPT !.status = Some(details.statusCode),
            !.statusText = Some(StatusTextOf(details.statusLine)),
            !.duration = duration,
            !.size = SizeOf(details.responseHeaders),
            !.responseHeaders = Some(HeadersObject(details.responseHeaders)),
            !.fromCache = Some(IsSome(details.fromCache) /\ Get(details.fromCache))]

(* The errored record given fromCache: false as well *)
ErroredRecordFromCache(r, error, duration) ==
  [r EXCEPT !.status = Some(0),
            !.statusText = Some(<<"E", "r", "r", "o", "r">>),
            !.duration = duration,
            !.error = Some(error),
            !.fromCache = Some(FALSE)]

(* background.ts:525-531: the spread of the record with status 0,          *)
(* statusText "Error", duration and error                                  *)
ErroredRecord(r, error, duration) ==
  [r EXCEPT !.status = Some(0),
            !.statusText = Some(<<"E", "r", "r", "o", "r">>),
            !.duration = duration,
            !.error = Some(error)]

(* The slice left out: the array is kept whole *)
SliceNone(arr) == arr

(* webRequests.slice(-500): the last 500 elements *)
SliceLast500(arr) ==
  IF Len(arr) <= MAX_RECORDS THEN arr ELSE SubSeq(arr, Len(arr) - MAX_RECORDS + 1, Len(arr))

(* webRequests.slice(0, 500), background.ts:442 *)
Slice500(arr) == SubSeq(arr, 1, Min(Len(arr), MAX_RECORDS))

----------------------------------------------------------------------------
(* The responses of the runtime.onMessage listener.  The message channel   *)
(* serialises a response when sendResponse is called, so the caller of     *)
(* runtime.sendMessage (browser-api.ts:305-308) holds a copy of the array  *)
(* (shared = FALSE); shared = TRUE would mean that the caller holds the    *)
(* very array the background script goes on mutating.                      *)

NoReply == [type |-> "none", success |-> FALSE, status |-> "", timestamp |-> 0]

(* background.ts:554: sendResponse({ success: true, data: webRequests }) *)
WebRequestsReply == [type |-> "GET_WEB_REQUESTS", success |-> TRUE, status |-> "", timestamp |-> 0]

(* The response of the clear branch with success: false *)
ClearedReplyUnsuccessful ==
  [type |-> "CLEAR_WEB_REQUESTS", success |-> FALSE, status |-> "", timestamp |-> 0]

(* background.ts:562: sendResponse({ success: true }) *)
ClearedReply == [type |-> "CLEAR_WEB_REQUESTS", success |-> TRUE, status |-> "", timestamp |-> 0]

(* background.ts:548: sendResponse({ status: "ok", timestamp: Date.now() }) *)
HealthReply(t) == [type |-> "HEALTH_CHECK", success |-> FALSE, status |-> "ok", timestamp |-> t]

(* background.ts:571: sendResponse({ success: false, error: error.message }) *)
FailureReply(type, message) ==
  [type |-> type, success |-> FALSE, status |-> "", timestamp |-> 0, error |-> Some(message)]

NoSnapshot == [taken |-> FALSE, data |-> <<>>, shared |-> FALSE]

(* No call of getWebRequests or clearWebRequests was made yet. *)
NoPromise == [call |-> "none", lastError |-> None, response |-> None, settles |-> <<>>]

(* The caller handed the array of the background script itself *)
SnapshotByReference(arr) == [taken |-> TRUE, data |-> arr, shared |-> TRUE]

(* The JSON form in which the channel carries a record: a member that is  *)
(* undefined is left out (None stays None) and a size of NaN arrives as    *)
(* null.                                                                   *)
Null == [kind |-> "null", val |-> 0]
Serialize(arr) ==
  [i \in 1..Len(arr) |-> [arr[i] EXCEPT !.size = IF @ = Some(NaN) THEN Some(Null) ELSE @]]

(* The data member of the GET_WEB_REQUESTS response as it reaches the      *)
(* caller: a copy made when sendResponse is called.                        *)
SnapshotOf(arr) == [taken |-> TRUE, data |-> Serialize(arr), shared |-> FALSE]

(* The array the caller holds after the background script changed its      *)
(* array in place (unshift, webRequests[i] = ...) to arr.                  *)
AfterInPlace(s, arr) == IF s.shared THEN [s EXCEPT !.data = arr] ELSE s

(* The array the caller holds after the background script bound            *)
(* webRequests to a new array (slice, []): the caller keeps its array.     *)
AfterRebind(s) == [s EXCEPT !.shared = FALSE]

----------------------------------------------------------------------------
(* The store of the popup page, src/src/store/cookie-store.ts *)

(* cookie-store.ts:9-14: window.matchMedia("(prefers-color-scheme:         *)
(* dark)").matches, or false without a window; matches is what the page    *)
(* reports.                                                                *)
getSystemDarkMode(matches) == matches

(* cookie-store.ts:46-54: the state the store is created with *)
InitialStore(matches) ==
  [currentUrl |-> "", searchTerm |-> "",
   darkMode |-> getSystemDarkMode(matches), systemDarkMode |-> getSystemDarkMode(matches),
   endpoint |-> "https://httpbin.org/post", sendResult |-> None,
   activeTab |-> "cookies", webRequestTypeFilters |-> {}]

(* The values the actions of the store are called with *)
TabNames == <<"cookies", "localStorage", "webRequests">>
RequestTypes == <<"script", "xmlhttprequest">>
Urls == <<"", "https://example.com/">>
Terms == <<"", "api">>
Endpoints == <<"https://httpbin.org/post", "https://example.com/collect">>
SendResults == <<None, Some("Success")>>
Booleans == <<FALSE, TRUE>>

(* The filters left as they are, whatever the tab *)
FiltersKept(tab, filters) == filters

(* cookie-store.ts:72-73: tab === "webRequests" ?                          *)
(* state.webRequestTypeFilters : new Set()                                 *)
FiltersAfterTab(tab, filters) == IF tab = "webRequests" THEN filters ELSE {}

(* cookie-store.ts:77-83: a copy of the set with the type deleted when it  *)
(* has it, added when not                                                  *)
ToggledFilters(filters, type) ==
  IF type \in filters THEN filters \ {type} ELSE filters \cup {type}

----------------------------------------------------------------------------
(* History of the events delivered, kept beside the program's state *)

(* sent: how many times the listener called sendResponse; escaped: the     *)
(* listener ended by an exception that left it.                            *)
NoOp == [op |-> "none", id |-> 0, arg |-> 0, idx |-> 0, prev |-> "none",
         sent |-> 0, escaped |-> FALSE]

Op(op, id, arg, idx) ==
  [op |-> op, id |-> id, arg |-> arg, idx |-> idx, prev |-> lastOp.op,
   sent |-> 0, escaped |-> FALSE]

Sent(o, n) == [o EXCEPT !.sent = n]
Escaped(o, thrown) == [o EXCEPT !.escaped = thrown]

(* An exchange as the browser sees it: phase "started" after                *)
(* onBeforeRequest (read at clock value t1), "headers" after one           *)
(* onBeforeSendHeaders (with the headers HeaderInputs[h]), "completed" or  *)
(* "errored" after the first terminal event, "other" after any event out   *)
(* of that protocol.  open: the starts of this id that no terminal event   *)
(* has answered yet.  overlap: a start arrived for this id while an        *)
(* earlier exchange with the id had no terminal event yet.                 *)
NoExchange == [phase |-> "none", t1 |-> 0, h |-> 0, overlap |-> FALSE, open |-> 0]

InFlight(e) == e.phase \in {"started", "headers"}

AfterStart(e, t1) ==
  [phase |-> "started", t1 |-> t1, h |-> 0, overlap |-> e.overlap \/ e.open > 0,
   open |-> e.open + 1]

AfterHeaders(e, h) ==
  IF e.phase = "started" THEN [e EXCEPT !.phase = "headers", !.h = h]
  ELSE [e EXCEPT !.phase = "other"]

AfterTerminal(e, kind) ==
  [e EXCEPT !.phase = IF InFlight(e) THEN kind ELSE "other",
            !.open = IF e.open > 0 THEN e.open - 1 ELSE 0]

(* What the user did to the store.  manual: toggleDarkMode or setDarkMode  *)
(* was called; toggled: toggleWebRequestTypeFilter was called since the    *)
(* last setActiveTab; before: the type filters before the last action of   *)
(* the store.                                                              *)
NoStoreLog == [manual |-> FALSE, toggled |-> FALSE, before |-> {}]

----------------------------------------------------------------------------
(* The initial state.  The script starts with an empty ledger.  To reach   *)
(* the cap of 500 records the model also starts from the state the script  *)
(* is in after the browser delivered onBeforeRequest for the ids 1, 2, ... *)
(* MAX_RECORDS, in this order, all at clock value 1 and with the first     *)
(* kind of details, and nothing else: a full ledger of in-flight records,  *)
(* the records of the ids 1 and 2 being the oldest.  That burst counts as  *)
(* one event of the budget MaxEvents.                                      *)

Prefill == [i \in 1..MAX_RECORDS |-> NewRequest(MAX_RECORDS + 1 - i, StartInputs[1], 1)]
PrefillTimes == [k \in 1..MAX_RECORDS |-> 1]
PrefillDeliveries == [i \in 1..MAX_RECORDS |-> <<i, 1>>]

Init ==
  /\ \/ /\ webRequests = <<>>
        /\ requestStartTimes = EmptyMap
        /\ deliveries = <<>>
        /\ exch = [id \in Ids |-> NoExchange]
        /\ events = 0
     \/ /\ webRequests = Prefill
        /\ requestStartTimes = PrefillTimes
        /\ deliveries = PrefillDeliveries
        /\ exch = [id \in Ids |-> AfterStart(NoExchange, 1)]
        /\ events = 1
  /\ now = 1
  /\ reply = NoReply
  /\ snapshot = NoSnapshot
  /\ lastOp = NoOp
  /\ promise = NoPromise
  /\ store = InitialStore(FALSE)
  /\ storeLog = NoStoreLog

----------------------------------------------------------------------------
(* The listeners.  Each runs to completion: none of them awaits.           *)

(* One more event or message is delivered, within the budget. *)
Deliver == events < MaxEvents /\ events' = events + 1

(* background.ts:407-452.  t1 and ts are the two readings of Date.now(),   *)
(* at line 410 and at line 432.                                            *)
onBeforeRequest(id, in, t1, ts) ==
  LET request == NewRequest(id, in, ts)
      unshifted == Unshift(webRequests, request)
      over == Len(unshifted) > MAX_RECORDS
  IN /\ Deliver
     /\ now <= t1 /\ t1 <= ts /\ ts <= MaxClock
     /\ requestStartTimes' = MapSet(requestStartTimes, id, t1)
     /\ webRequests' = IF over THEN Slice500(unshifted) ELSE unshifted
     /\ snapshot' = IF over THEN AfterRebind(AfterInPlace(snapshot, unshifted))
                    ELSE AfterInPlace(snapshot, unshifted)
     /\ now' = ts
     /\ deliveries' = Append(deliveries, <<id, ts>>)
     /\ exch' = [exch EXCEPT ![id] = AfterStart(@, t1)]
     /\ lastOp' = Op("onBeforeRequest", id, 0, 1)
     /\ UNCHANGED <<reply, promise, store, storeLog>>

(* The array webRequests as the three listeners that update a record      *)
(* leave it: the record findIndex finds is replaced, and without such a    *)
(* record (or when line 493 throws) the array is as it was.                *)

(* background.ts:457-469 *)
HeadersSentLedger(arr, id, h) ==
  LET requestIndex == FindIndex(arr, id)
  IN IF requestIndex /= -1
     THEN ReplaceAt(arr, requestIndex,
                    HeadersRecord(arr[requestIndex], HeadersObject(HeaderInputs[h])))
     ELSE arr

(* background.ts:478-507 *)
CompletedLedger(arr, table, id, c, t) ==
  LET requestIndex == FindIndex(arr, id)
      details == CompletedDetails[c]
  IN IF requestIndex /= -1 /\ ~FindThrows(details.responseHeaders)
     THEN ReplaceAt(arr, requestIndex,
                    CompletedRecord(arr[requestIndex], details, DurationOf(table, id, t)))
     ELSE arr

(* background.ts:516-532 *)
ErroredLedger(arr, table, id, e, t) ==
  LET requestIndex == FindIndex(arr, id)
  IN IF requestIndex /= -1
     THEN ReplaceAt(arr, requestIndex,
                    ErroredRecord(arr[requestIndex], ErrorInputs[e], DurationOf(table, id, t)))
     ELSE arr

(* background.ts:455-473 *)
onBeforeSendHeaders(id, h) ==
  LET requestIndex == FindIndex(webRequests, id)
      updated == HeadersSentLedger(webRequests, id, h)
  IN /\ Deliver
     /\ webRequests' = updated
     /\ snapshot' = IF requestIndex /= -1 THEN AfterInPlace(snapshot, updated) ELSE snapshot
     /\ exch' = [exch EXCEPT ![id] = AfterHeaders(@, h)]
     /\ lastOp' = Op("onBeforeSendHeaders", id, h, requestIndex)
     /\ UNCHANGED <<requestStartTimes, now, reply, deliveries, promise, store, storeLog>>

(* background.ts:476-511.  t is the reading of Date.now() at line 479; the *)
(* clock is read only when the id has a start time.  The listener has no   *)
(* try: an exception thrown at line 493 leaves it, after line 480 and      *)
(* before the assignment of line 496.                                      *)
onCompleted(id, c, t) ==
  LET details == CompletedDetails[c]
      thrown == FindIndex(webRequests, id) /= -1 /\ FindThrows(details.responseHeaders)
      duration == DurationOf(requestStartTimes, id, t)
      requestIndex == FindIndex(webRequests, id)
      updated == CompletedLedger(webRequests, requestStartTimes, id, c, t)
  IN /\ Deliver
     /\ now <= t /\ t <= MaxClock
     /\ IsSome(duration) \/ t = now
     /\ requestStartTimes' = MapDelete(requestStartTimes, id)
     /\ webRequests' = updated
     /\ snapshot' = IF requestIndex /= -1 /\ ~thrown THEN AfterInPlace(snapshot, updated)
                    ELSE snapshot
     /\ now' = t
     /\ exch' = [exch EXCEPT ![id] = AfterTerminal(@, "completed")]
     /\ lastOp' = Escaped(Op("onCompleted", id, c, requestIndex), thrown)
     /\ UNCHANGED <<reply, deliveries, promise, store, storeLog>>

(* background.ts:514-535 *)
onErrorOccurred(id, e, t) ==
  LET duration == DurationOf(requestStartTimes, id, t)
      requestIndex == FindIndex(webRequests, id)
      updated == ErroredLedger(webRequests, requestStartTimes, id, e, t)
  IN /\ Deliver
     /\ now <= t /\ t <= MaxClock
     /\ IsSome(duration) \/ t = now
     /\ requestStartTimes' = MapDelete(requestStartTimes, id)
     /\ webRequests' = updated
     /\ snapshot' = IF requestIndex /= -1 THEN AfterInPlace(snapshot, updated) ELSE snapshot
     /\ now' = t
     /\ exch' = [exch EXCEPT ![id] = AfterTerminal(@, "errored")]
     /\ lastOp' = Op("onErrorOccurred", id, e, requestIndex)
     /\ UNCHANGED <<reply, deliveries, promise, store, storeLog>>

(* background.ts:546-550: message.type === "HEALTH_CHECK" *)
HealthCheck(t) ==
  /\ Deliver
  /\ now <= t /\ t <= MaxClock
  /\ reply' = HealthReply(t)
  /\ now' = t
  /\ lastOp' = Sent(Op("HEALTH_CHECK", 0, 0, 0), 1)
  /\ UNCHANGED <<webRequests, requestStartTimes, snapshot, deliveries, exch, promise, store, storeLog>>

(* background.ts:552-556: message.type === "GET_WEB_REQUESTS" *)
GetWebRequestsBranch ==
  /\ Deliver
  /\ reply' = WebRequestsReply
  /\ snapshot' = SnapshotOf(webRequests)
  /\ lastOp' = Sent(Op("GET_WEB_REQUESTS", 0, 0, 0), 1)
  /\ UNCHANGED <<webRequests, requestStartTimes, now, deliveries, exch>>

GetWebRequests == GetWebRequestsBranch /\ UNCHANGED <<promise, store, storeLog>>

(* background.ts:558-564: message.type === "CLEAR_WEB_REQUESTS" *)
ClearWebRequestsBranch ==
  /\ Deliver
  /\ webRequests' = <<>>
  /\ requestStartTimes' = MapClear(requestStartTimes)
  /\ reply' = ClearedReply
  /\ snapshot' = AfterRebind(snapshot)
  /\ deliveries' = <<>>
  /\ lastOp' = Sent(Op("CLEAR_WEB_REQUESTS", 0, 0, 0), 1)
  /\ UNCHANGED <<now, exch>>

ClearWebRequests == ClearWebRequestsBranch /\ UNCHANGED <<promise, store, storeLog>>

(* background.ts:566-568: any other message type; no response is sent *)
UnhandledMessage ==
  /\ Deliver
  /\ lastOp' = Op("UNHANDLED", 0, 0, 0)
  /\ UNCHANGED <<webRequests, requestStartTimes, now, reply, snapshot, deliveries, exch, promise, store, storeLog>>

(* background.ts:569-573: the catch of the onMessage listener.  An          *)
(* exception thrown in the try block while a GET_WEB_REQUESTS or           *)
(* CLEAR_WEB_REQUESTS message is handled, at the console.log that opens    *)
(* the branch (at = 1) or in its sendResponse call (at = 2, the response   *)
(* not handed over), is answered with { success: false, error }.  At the   *)
(* sendResponse of the clear branch lines 560 and 561 have run.            *)
MessageFailureBranch(type, at) ==
  LET cleared == type = "CLEAR_WEB_REQUESTS" /\ at = 2
  IN /\ Deliver
     /\ webRequests' = IF cleared THEN <<>> ELSE webRequests
     /\ requestStartTimes' = IF cleared THEN MapClear(requestStartTimes) ELSE requestStartTimes
     /\ snapshot' = IF cleared THEN AfterRebind(snapshot) ELSE snapshot
     /\ deliveries' = IF cleared THEN <<>> ELSE deliveries
     /\ reply' = FailureReply(type, "error.message")
     /\ lastOp' = Sent(Op(type, 0, at, 0), 1)
     /\ UNCHANGED <<now, exch>>

MessageFailure(type, at) == MessageFailureBranch(type, at) /\ UNCHANGED <<promise, store, storeLog>>

Next ==
  \/ \E id \in Ids, k \in 1..Len(StartInputs), t1 \in 1..MaxClock, ts \in 1..MaxClock :
       onBeforeRequest(id, StartInputs[k], t1, ts)
  \/ \E id \in Ids, h \in 1..Len(HeaderInputs) : onBeforeSendHeaders(id, h)
  \/ \E id \in Ids, c \in 1..Len(CompletedInputs), t \in 1..MaxClock : onCompleted(id, c, t)
  \/ \E id \in Ids, e \in 1..Len(ErrorInputs), t \in 1..MaxClock : onErrorOccurred(id, e, t)
  \/ \E t \in 1..MaxClock : HealthCheck(t)
  \/ GetWebRequests
  \/ ClearWebRequests
  \/ UnhandledMessage

Spec == Init /\ [][Next]_vars

----------------------------------------------------------------------------
(* The script from its start, the ledger empty, with every kind of details *)
(* of the tables above, for the exchanges of one request id.               *)

InitEmpty ==
  /\ webRequests = <<>>
  /\ requestStartTimes = EmptyMap
  /\ deliveries = <<>>
  /\ exch = [id \in Ids |-> NoExchange]
  /\ events = 0
  /\ now = 1
  /\ reply = NoReply
  /\ snapshot = NoSnapshot
  /\ lastOp = NoOp
  /\ promise = NoPromise
  /\ store = InitialStore(FALSE)
  /\ storeLog = NoStoreLog

(* The events of this specification all belong to one request id. *)
DetailIds == {1}

NextDetails ==
  \/ \E id \in DetailIds, k \in 1..Len(StartDetails), t1 \in 1..MaxClock, ts \in 1..MaxClock :
       onBeforeRequest(id, StartDetails[k], t1, ts)
  \/ \E id \in DetailIds, h \in 1..Len(HeaderInputs) : onBeforeSendHeaders(id, h)
  \/ \E id \in DetailIds, c \in 1..Len(CompletedDetails), t \in 1..MaxClock : onCompleted(id, c, t)
  \/ \E id \in DetailIds, e \in 1..Len(ErrorInputs), t \in 1..MaxClock : onErrorOccurred(id, e, t)
  \/ GetWebRequests
  \/ ClearWebRequests
  \/ \E type \in {"GET_WEB_REQUESTS", "CLEAR_WEB_REQUESTS"}, at \in {1, 2} : MessageFailure(type, at)

SpecDetails == InitEmpty /\ [][NextDetails]_vars

(* The script from its start, the ledger empty, with the events and        *)
(* messages of Next for the two request ids.                               *)
SpecLedger == InitEmpty /\ [][Next]_vars

(* The same with the four webRequest listeners alone: no message arrives.  *)
NextEvents ==
  \/ \E id \in Ids, k \in 1..Len(StartInputs), t1 \in 1..MaxClock, ts \in 1..MaxClock :
       onBeforeRequest(id, StartInputs[k], t1, ts)
  \/ \E id \in Ids, h \in 1..Len(HeaderInputs) : onBeforeSendHeaders(id, h)
  \/ \E id \in Ids, c \in 1..Len(CompletedInputs), t \in 1..MaxClock : onCompleted(id, c, t)
  \/ \E id \in Ids, e \in 1..Len(ErrorInputs), t \in 1..MaxClock : onErrorOccurred(id, e, t)

SpecEvents == InitEmpty /\ [][NextEvents]_vars

(* The script under an event source that delivers, for each id, a start    *)
(* before any other event of the id and no more terminal events than       *)
(* starts.  To reach the end of a second exchange of an id within the      *)
(* budget, the model also starts from the states the script is in after    *)
(* two events for the id 1, all readings of the clock being 1: two starts, *)
(* or a start and its completed event.  Such a pair counts as one event of *)
(* the budget MaxEvents.                                                   *)
Started == <<NewRequest(1, StartInputs[1], 1)>>

InitContract ==
  /\ \/ /\ webRequests = <<>>
        /\ requestStartTimes = EmptyMap
        /\ deliveries = <<>>
        /\ exch = [id \in Ids |-> NoExchange]
        /\ events = 0
     \/ /\ webRequests = Unshift(Started, NewRequest(1, StartInputs[1], 1))
        /\ requestStartTimes = MapSet(MapSet(EmptyMap, 1, 1), 1, 1)
        /\ deliveries = << <<1, 1>>, <<1, 1>> >>
        /\ exch = [id \in Ids |-> IF id = 1 THEN AfterStart(AfterStart(NoExchange, 1), 1)
                                  ELSE NoExchange]
        /\ events = 1
     \/ /\ webRequests = CompletedLedger(Started, MapSet(EmptyMap, 1, 1), 1, 1, 1)
        /\ requestStartTimes = MapDelete(MapSet(EmptyMap, 1, 1), 1)
        /\ deliveries = << <<1, 1>> >>
        /\ exch = [id \in Ids |-> IF id = 1
                                  THEN AfterTerminal(AfterStart(NoExchange, 1), "completed")
                                  ELSE NoExchange]
        /\ events = 1
  /\ now = 1
  /\ reply = NoReply
  /\ snapshot = NoSnapshot
  /\ lastOp = NoOp
  /\ promise = NoPromise
  /\ store = InitialStore(FALSE)
  /\ storeLog = NoStoreLog

NextContract ==
  \/ \E id \in Ids, k \in 1..Len(StartInputs), t1 \in 1..MaxClock, ts \in 1..MaxClock :
       onBeforeRequest(id, StartInputs[k], t1, ts)
  \/ \E id \in Ids, h \in 1..Len(HeaderInputs) :
       exch[id].phase /= "none" /\ onBeforeSendHeaders(id, h)
  \/ \E id \in Ids, c \in 1..Len(CompletedInputs), t \in 1..MaxClock :
       exch[id].open > 0 /\ onCompleted(id, c, t)
  \/ \E id \in Ids, e \in 1..Len(ErrorInputs), t \in 1..MaxClock :
       exch[id].open > 0 /\ onErrorOccurred(id, e, t)
  \/ ClearWebRequests

SpecContract == InitContract /\ [][NextContract]_vars

----------------------------------------------------------------------------
(* The actions of the store, cookie-store.ts:57-85.  Each is one call of   *)
(* set, which merges the object given into the state.                      *)

(* An action of the store ran: nothing of the background script changes. *)
StoreAction(op, arg, manual, toggled) ==
  /\ lastOp' = Op(op, 0, arg, 0)
  /\ storeLog' = [manual |-> manual, toggled |-> toggled,
                  before |-> store.webRequestTypeFilters]
  /\ UNCHANGED <<webRequests, requestStartTimes, now, reply, snapshot, events,
                 deliveries, exch, promise>>

(* cookie-store.ts:57 *)
setCurrentUrl(u) ==
  /\ store' = [store EXCEPT !.currentUrl = Urls[u]]
  /\ StoreAction("setCurrentUrl", u, storeLog.manual, storeLog.toggled)

(* cookie-store.ts:58 *)
setSearchTerm(t) ==
  /\ store' = [store EXCEPT !.searchTerm = Terms[t]]
  /\ StoreAction("setSearchTerm", t, storeLog.manual, storeLog.toggled)

(* cookie-store.ts:59 *)
setDarkMode(b) ==
  /\ store' = [store EXCEPT !.darkMode = Booleans[b]]
  /\ StoreAction("setDarkMode", b, TRUE, storeLog.toggled)

(* cookie-store.ts:60-64 *)
setSystemDarkMode(b) ==
  /\ store' = [store EXCEPT !.systemDarkMode = Booleans[b], !.darkMode = Booleans[b]]
  /\ StoreAction("setSystemDarkMode", b, storeLog.manual, storeLog.toggled)

(* cookie-store.ts:65 *)
toggleDarkMode ==
  /\ store' = [store EXCEPT !.darkMode = ~store.darkMode]
  /\ StoreAction("toggleDarkMode", 0, TRUE, storeLog.toggled)

(* cookie-store.ts:66 *)
setEndpoint(e) ==
  /\ store' = [store EXCEPT !.endpoint = Endpoints[e]]
  /\ StoreAction("setEndpoint", e, storeLog.manual, storeLog.toggled)

(* cookie-store.ts:67 *)
setSendResult(r) ==
  /\ store' = [store EXCEPT !.sendResult = SendResults[r]]
  /\ StoreAction("setSendResult", r, storeLog.manual, storeLog.toggled)

(* cookie-store.ts:68-74 *)
setActiveTab(t) ==
  /\ store' = [store EXCEPT !.activeTab = TabNames[t],
                            !.webRequestTypeFilters =
                               FiltersAfterTab(TabNames[t], store.webRequestTypeFilters)]
  /\ StoreAction("setActiveTab", t, storeLog.manual, FALSE)

(* cookie-store.ts:75-84 *)
toggleWebRequestTypeFilter(y) ==
  /\ store' = [store EXCEPT !.webRequestTypeFilters =
                               ToggledFilters(store.webRequestTypeFilters, RequestTypes[y])]
  /\ StoreAction("toggleWebRequestTypeFilter", y, storeLog.manual, TRUE)

(* cookie-store.ts:85 *)
clearWebRequestTypeFilters ==
  /\ store' = [store EXCEPT !.webRequestTypeFilters = {}]
  /\ StoreAction("clearWebRequestTypeFilters", 0, storeLog.manual, storeLog.toggled)

(* The store from its creation, on a page of either colour scheme, under   *)
(* the calls of its actions in any order.                                  *)
InitStore ==
  /\ webRequests = <<>>
  /\ requestStartTimes = EmptyMap
  /\ deliveries = <<>>
  /\ exch = [id \in Ids |-> NoExchange]
  /\ events = 0
  /\ now = 1
  /\ reply = NoReply
  /\ snapshot = NoSnapshot
  /\ lastOp = NoOp
  /\ promise = NoPromise
  /\ \E b \in 1..Len(Booleans) : store = InitialStore(Booleans[b])
  /\ storeLog = NoStoreLog

NextStore ==
  \/ \E u \in 1..Len(Urls) : setCurrentUrl(u)
  \/ \E t \in 1..Len(Terms) : setSearchTerm(t)
  \/ \E b \in 1..Len(Booleans) : setDarkMode(b)
  \/ \E b \in 1..Len(Booleans) : setSystemDarkMode(b)
  \/ toggleDarkMode
  \/ \E e \in 1..Len(Endpoints) : setEndpoint(e)
  \/ \E r \in 1..Len(SendResults) : setSendResult(r)
  \/ \E t \in 1..Len(TabNames) : setActiveTab(t)
  \/ \E y \in 1..Len(RequestTypes) : toggleWebRequestTypeFilter(y)
  \/ clearWebRequestTypeFilters

SpecStore == InitStore /\ [][NextStore]_vars

----------------------------------------------------------------------------
(* The callers of the ledger: BrowserAPI.getWebRequests and                *)
(* BrowserAPI.clearWebRequests, src/src/lib/browser-api.ts:301-353.        *)

(* browser-api.ts:56-69: getBrowser answers chrome when chrome.tabs is     *)
(* there, else browser when browser.tabs is there, else it throws.         *)
getBrowser(page) ==
  IF page.chromeTabs THEN "chrome" ELSE IF page.browserTabs THEN "browser" ELSE "throw"

(* The pages a call is made from *)
Pages == <<
  [chromeTabs |-> TRUE, browserTabs |-> FALSE],
  [chromeTabs |-> FALSE, browserTabs |-> TRUE],
  [chromeTabs |-> FALSE, browserTabs |-> FALSE]
>>

(* A call of resolve or of reject *)
Resolve(value) == [kind |-> "resolve", value |-> value, message |-> ""]
Reject(message) == [kind |-> "reject", value |-> None, message |-> message]

(* The response the callback of runtime.sendMessage is given for what the  *)
(* listener passed to sendResponse: data is the array as the channel       *)
(* carried it.                                                             *)
ResponseOf(rep, snap) ==
  Some([success |-> rep.success,
        data |-> IF rep.type = "GET_WEB_REQUESTS" /\ rep.success THEN Some(snap.data) ELSE None,
        error |-> IF rep.success THEN None ELSE rep.error])

(* Responses of another shape than the listener's: success without data,   *)
(* failure without error.                                                  *)
OtherResponses == <<
  Some([success |-> TRUE, data |-> None, error |-> None]),
  Some([success |-> FALSE, data |-> None, error |-> None])
>>

(* The callback of getWebRequests with the no-response test left out: an   *)
(* undefined response resolves with the empty list.                        *)
getWebRequestsCallbackLenient(lastError, response) ==
  IF IsSome(lastError) THEN << Reject(Get(lastError)) >>
  ELSE IF ~IsSome(response) THEN << Resolve(Some(<<>>)) >>
  ELSE IF Get(response).success
       THEN << Resolve(Some(IF IsSome(Get(response).data) THEN Get(Get(response).data) ELSE <<>>)) >>
  ELSE << Reject(IF IsSome(Get(response).error) THEN Get(Get(response).error)
                 ELSE "Failed to get web requests") >>

(* browser-api.ts:307-323: the callback of getWebRequests, as the calls of *)
(* resolve and reject it makes.                                            *)
getWebRequestsCallback(lastError, response) ==
  IF IsSome(lastError) THEN << Reject(Get(lastError)) >>
  ELSE IF ~IsSome(response) THEN << Reject("No response from background script") >>
  ELSE IF Get(response).success
       THEN << Resolve(Some(IF IsSome(Get(response).data) THEN Get(Get(response).data) ELSE <<>>)) >>
  ELSE << Reject(IF IsSome(Get(response).error) THEN Get(Get(response).error)
                 ELSE "Failed to get web requests") >>

(* browser-api.ts:334-350: the callback of clearWebRequests *)
clearWebRequestsCallback(lastError, response) ==
  IF IsSome(lastError) THEN << Reject(Get(lastError)) >>
  ELSE IF ~IsSome(response) THEN << Reject("No response from background script") >>
  ELSE IF Get(response).success THEN << Resolve(None) >>
  ELSE << Reject(IF IsSome(Get(response).error) THEN Get(Get(response).error)
                 ELSE "Failed to clear web requests") >>

(* How a message sent with runtime.sendMessage fares: the listener answers *)
(* it, the listener's catch answers it (the exception thrown at place 1 or *)
(* 2), no listener is reached and the channel sets lastError, the callback *)
(* is called without response and without lastError, or a response of      *)
(* another shape comes back.                                               *)
Channels == <<"answered", "caught1", "caught2", "unreachable", "silent", "other1", "other2">>

ChannelError(ch) ==
  IF ch = "unreachable"
  THEN Some("Could not establish connection. Receiving end does not exist.")
  ELSE None

(* The listener's part of a call: the branch of the message type, its      *)
(* catch, or nothing when the message reaches no listener.                 *)
Background(type, ch) ==
  IF ch = "answered"
  THEN IF type = "GET_WEB_REQUESTS" THEN GetWebRequestsBranch ELSE ClearWebRequestsBranch
  ELSE IF ch = "caught1" THEN MessageFailureBranch(type, 1)
  ELSE IF ch = "caught2" THEN MessageFailureBranch(type, 2)
  ELSE /\ Deliver
       /\ UNCHANGED <<webRequests, requestStartTimes, now, reply, snapshot, lastOp,
                      deliveries, exch>>

(* The response the callback is called with, once the listener's part is   *)
(* done.                                                                   *)
Received(ch) ==
  IF ch \in {"answered", "caught1", "caught2"} THEN ResponseOf(reply', snapshot')
  ELSE IF ch = "other1" THEN OtherResponses[1]
  ELSE IF ch = "other2" THEN OtherResponses[2]
  ELSE None

(* A call that getBrowser ends: the async function rejects, no message is  *)
(* sent.                                                                   *)
NoBrowser(call) ==
  /\ Deliver
  /\ promise' = [call |-> call, lastError |-> None, response |-> None,
                 settles |-> << Reject("Browser API not available") >>]
  /\ UNCHANGED <<webRequests, requestStartTimes, now, reply, snapshot, lastOp,
                 deliveries, exch, store, storeLog>>

(* browser-api.ts:301-326 *)
getWebRequests(page, ch) ==
  IF getBrowser(Pages[page]) = "throw" THEN NoBrowser("getWebRequests")
  ELSE /\ Background("GET_WEB_REQUESTS", ch)
       /\ promise' = [call |-> "getWebRequests", lastError |-> ChannelError(ch),
                      response |-> Received(ch),
                      settles |-> getWebRequestsCallback(ChannelError(ch), Received(ch))]
       /\ UNCHANGED <<store, storeLog>>

(* browser-api.ts:328-353 *)
clearWebRequests(page, ch) ==
  IF getBrowser(Pages[page]) = "throw" THEN NoBrowser("clearWebRequests")
  ELSE /\ Background("CLEAR_WEB_REQUESTS", ch)
       /\ promise' = [call |-> "clearWebRequests", lastError |-> ChannelError(ch),
                      response |-> Received(ch),
                      settles |-> clearWebRequestsCallback(ChannelError(ch), Received(ch))]
       /\ UNCHANGED <<store, storeLog>>

NextClient ==
  \/ \E id \in DetailIds, k \in 1..Len(StartInputs), t1 \in 1..MaxClock, ts \in 1..MaxClock :
       onBeforeRequest(id, StartInputs[k], t1, ts)
  \/ \E id \in DetailIds, c \in 1..Len(CompletedDetails), t \in 1..MaxClock : onCompleted(id, c, t)
  \/ \E page \in 1..Len(Pages), ch \in 1..Len(Channels) : getWebRequests(page, Channels[ch])
  \/ \E page \in 1..Len(Pages), ch \in 1..Len(Channels) : clearWebRequests(page, Channels[ch])

SpecClient == InitEmpty /\ [][NextClient]_vars

----------------------------------------------------------------------------
(* Properties *)

(* C1: in every reachable state the ledger holds at most MAX_RECORDS       *)
(* records.                                                                *)
CapacityInvariant == Len(webRequests) <= MAX_RECORDS

CapacityWitness ==
  /\ lastOp.op = "onBeforeRequest"
  /\ Len(deliveries) > MAX_RECORDS
  /\ Len(webRequests) = MAX_RECORDS

(* C2: a start delivered to a full ledger removes exactly the last record  *)
(* (the earliest inserted), whatever the state of that record or of any    *)
(* other; every other record keeps its place behind the new head and all   *)
(* its fields.                                                             *)
EvictionOrder ==
  [][(lastOp'.op = "onBeforeRequest" /\ Len(webRequests) >= MAX_RECORDS)
       => /\ Len(webRequests') = MAX_RECORDS
          /\ webRequests'[1].id = lastOp'.id
          /\ Tail(webRequests') = SubSeq(webRequests, 1, MAX_RECORDS - 1)]_vars

(* The record of id 1, the oldest of the full ledger, got its terminal     *)
(* event and was then evicted by a start.                                  *)
EvictionWitness ==
  /\ lastOp.op = "onBeforeRequest"
  /\ Len(deliveries) > MAX_RECORDS
  /\ exch[1].phase \in {"completed", "errored"}
  /\ \A i \in 1..Len(webRequests) : webRequests[i].id /= 1

(* C3: the ledger, which is what GET_WEB_REQUESTS hands out, is            *)
(* newest-first: its records are, in reverse order, the last MAX_RECORDS   *)
(* starts delivered since the last clear.                                  *)
NewestFirst ==
  LET n == Len(webRequests)
      m == Len(deliveries)
  IN /\ lastOp.op = "GET_WEB_REQUESTS" =>
          /\ Len(snapshot.data) = n
          /\ \A i \in 1..n : /\ snapshot.data[i].id = webRequests[i].id
                             /\ snapshot.data[i].timestamp = webRequests[i].timestamp
     /\ n = Min(m, MAX_RECORDS)
     /\ \A i \in 1..n : /\ webRequests[i].id = deliveries[m + 1 - i][1]
                        /\ webRequests[i].timestamp = deliveries[m + 1 - i][2]

(* A terminal event updated the second record of the ledger, behind a      *)
(* newer record of another id.                                             *)
NewestFirstWitness ==
  /\ lastOp.op \in {"onCompleted", "onErrorOccurred"}
  /\ lastOp.idx = 2
  /\ Len(webRequests) = 2
  /\ webRequests[1].id /= webRequests[2].id
  /\ IsSome(webRequests[2].status)

(* C4: the first terminal event for an id since its start, ingested at     *)
(* clock value t2 while the record is in the ledger, sets the record's     *)
(* duration to t2 - t1, t1 being the clock value at which the start was    *)
(* ingested.                                                               *)
CorrelationCorrectness ==
  [][\A id \in Ids :
       (/\ lastOp'.op \in {"onCompleted", "onErrorOccurred"}
        /\ lastOp'.id = id
        /\ InFlight(exch[id])
        /\ \E i \in 1..Len(webRequests) : webRequests[i].id = id)
       => LET i == CHOOSE j \in 1..Len(webRequests) :
                     webRequests[j].id = id /\ \A k \in 1..(j - 1) : webRequests[k].id /= id
          IN webRequests'[i].duration = Some(now' - exch[id].t1)]_vars

CorrelationWitness ==
  /\ lastOp.op = "onCompleted"
  /\ lastOp.idx >= 1
  /\ exch[lastOp.id].phase = "completed"
  /\ webRequests[lastOp.idx].duration = Some(1)

(* C5: a terminal event for an id without a record in the ledger (never    *)
(* started, evicted or cleared) leaves the ledger as it was.               *)
OrphanNoOp ==
  [][(/\ lastOp'.op \in {"onCompleted", "onErrorOccurred"}
      /\ \A i \in 1..Len(webRequests) : webRequests[i].id /= lastOp'.id)
       => webRequests' = webRequests]_vars

(* The terminal event of an exchange whose record was evicted from the     *)
(* full ledger.                                                            *)
OrphanWitness ==
  /\ lastOp.op \in {"onCompleted", "onErrorOccurred"}
  /\ lastOp.idx = -1
  /\ lastOp.prev = "onBeforeRequest"
  /\ Len(deliveries) > MAX_RECORDS
  /\ Len(webRequests) = MAX_RECORDS

(* C6: no record has both error set and a status of 100 or more.           *)
MutualExclusivity ==
  \A i \in 1..Len(webRequests) :
    ~(/\ IsSome(webRequests[i].error)
      /\ IsSome(webRequests[i].status)
      /\ Get(webRequests[i].status) >= 100)

ClearEmpties ==
  [][lastOp'.op = "CLEAR_WEB_REQUESTS"
       => /\ webRequests' = <<>>
          /\ DOMAIN requestStartTimes' = {}
          /\ reply'.type = "CLEAR_WEB_REQUESTS"
          /\ reply'.success]_vars

(* The second of two clears in a row, the first one on the full ledger. *)
ClearTwiceWitness ==
  /\ lastOp.op = "CLEAR_WEB_REQUESTS"
  /\ lastOp.prev = "CLEAR_WEB_REQUESTS"
  /\ webRequests = <<>>
  /\ DOMAIN requestStartTimes = {}
  /\ reply.success
  /\ InFlight(exch[1])

UniqueIds(arr) == Cardinality({arr[i].id : i \in 1..Len(arr)}) = Len(arr)

(* C9 as stated: no two records of the ledger have the same id as long as  *)
(* the browser never started an id whose earlier exchange was still in     *)
(* flight.                                                                 *)
UniqueIdsUnderSourceContract ==
  (\A id \in Ids : ~exch[id].overlap) => UniqueIds(webRequests)

(* C9 as amended: no two records of the ledger have the same id as long as *)
(* no start is delivered for an id that still has a record in the ledger.  *)
UniqueIdsWithoutRestart ==
  /\ UniqueIds(webRequests)
  /\ [][(/\ UniqueIds(webRequests)
         /\ ~(/\ lastOp'.op = "onBeforeRequest"
              /\ \E i \in 1..Len(webRequests) : webRequests[i].id = lastOp'.id))
          => UniqueIds(webRequests')]_vars

(* Two exchanges with different ids, the older one updated since. *)
UniqueIdsWitness ==
  /\ Len(webRequests) = 2
  /\ UniqueIds(webRequests)
  /\ lastOp.op \in {"onBeforeSendHeaders", "onCompleted", "onErrorOccurred"}
  /\ lastOp.idx = 2

(* C10: start at t1, headers-sent with the headers H, completed with       *)
(* status code s, content-length n and fromCache f at t2, for one id,      *)
(* leave the record of that id with status s, size n, duration t2 - t1,    *)
(* fromCache f and requestHeaders H (H having no name twice).              *)
EndToEndSuccess ==
  [][\A id \in Ids, c \in 1..Len(CompletedInputs) :
       (/\ lastOp'.op = "onCompleted" /\ lastOp'.id = id /\ lastOp'.arg = c
        /\ exch[id].phase = "headers"
        /\ \E i \in 1..Len(webRequests) : webRequests[i].id = id)
       => LET i == CHOOSE j \in 1..Len(webRequests) :
                     webRequests[j].id = id /\ \A k \in 1..(j - 1) : webRequests[k].id /= id
              r == webRequests'[i]
              d == CompletedInputs[c]
              H == IF IsSome(HeaderInputs[exch[id].h]) THEN Get(HeaderInputs[exch[id].h]) ELSE <<>>
              distinct == \A a, b \in 1..Len(H) : H[a].name = H[b].name => a = b
          IN /\ r.id = id
             /\ r.status = Some(d.statusCode)
             /\ IsSome(d.contentLength) => r.size = Some(Num(Get(d.contentLength)))
             /\ r.duration = Some(now' - exch[id].t1)
             /\ r.fromCache = d.fromCache
             /\ distinct =>
                  /\ IsSome(r.requestHeaders)
                  /\ DOMAIN Get(r.requestHeaders) = {H[a].name : a \in 1..Len(H)}
                  /\ \A a \in 1..Len(H) :
                       Get(r.requestHeaders)[H[a].name] =
                         (IF IsSome(H[a].value) THEN Get(H[a].value) ELSE <<>>)]_vars

(* The scenario of the specification: Accept: */*, 200, content-length     *)
(* 1234, not from cache, one clock tick between start and completion.      *)
EndToEndWitness ==
  /\ lastOp.op = "onCompleted" /\ lastOp.arg = 1 /\ lastOp.idx >= 1
  /\ exch[lastOp.id].phase = "completed"
  /\ exch[lastOp.id].h = 1
  /\ LET r == webRequests[lastOp.idx]
     IN /\ r.status = Some(200)
        /\ r.size = Some(Num(1234))
        /\ r.duration = Some(1)
        /\ r.fromCache = Some(FALSE)
        /\ r.requestHeaders = Some(HeadersObject(HeaderInputs[1]))

(* The first record of the ledger with the given id: the one findIndex     *)
(* answers, which is the record of the last start of that id.              *)
FirstWithId(arr, id) ==
  CHOOSE j \in 1..Len(arr) : arr[j].id = id /\ \A k \in 1..(j - 1) : arr[k].id /= id

HasRecord(arr, id) == \E i \in 1..Len(arr) : arr[i].id = id

MessageContract ==
  [][lastOp'.op \in {"GET_WEB_REQUESTS", "CLEAR_WEB_REQUESTS"}
       => /\ lastOp'.sent = 1
          /\ reply'.type = lastOp'.op
          /\ (lastOp'.op = "GET_WEB_REQUESTS" /\ lastOp'.arg = 0)
               => /\ reply'.success
                  /\ snapshot'.taken
                  /\ snapshot'.data = Serialize(webRequests)
                  /\ webRequests' = webRequests
          /\ (lastOp'.op = "CLEAR_WEB_REQUESTS" /\ lastOp'.arg = 0)
               => /\ reply'.success
                  /\ webRequests' = <<>>
                  /\ DOMAIN requestStartTimes' = {}
          /\ lastOp'.arg /= 0
               => /\ ~reply'.success
                  /\ IsSome(reply'.error)]_vars

(* The response to a GET_WEB_REQUESTS message carries the record of a      *)
(* completed exchange.                                                     *)
MessageContractWitness ==
  /\ lastOp.op = "GET_WEB_REQUESTS" /\ lastOp.arg = 0 /\ lastOp.sent = 1
  /\ reply = WebRequestsReply
  /\ Len(snapshot.data) = 1
  /\ snapshot.data[1].status = Some(200)
  /\ snapshot.data = webRequests

(* C14: none of the four webRequest listeners ends by an exception that    *)
(* leaves it; whatever is thrown while an event is processed is caught     *)
(* inside the listener.                                                    *)
NoEscapingException ==
  lastOp.op \in {"onBeforeRequest", "onBeforeSendHeaders", "onCompleted", "onErrorOccurred"}
    => ~lastOp.escaped

(* A text that is the decimal notation of an integer: digits, at least one *)
IsIntegerText(v) == v /= <<>> /\ \A k \in 1..Len(v) : IsDigit(v[k])

(* C15: a completed event for an id with a record in the ledger sets size  *)
(* to the integer the content-length response header (its name compared    *)
(* without regard to case) carries, when there is such a header and its    *)
(* value is the notation of an integer; with the header missing, empty or  *)
(* not numeric, size is left absent.                                       *)
SizeDerivation ==
  [][\A id \in Ids :
       (/\ lastOp'.op = "onCompleted" /\ lastOp'.id = id
        /\ ~lastOp'.escaped
        /\ HasRecord(webRequests, id))
       => LET q == webRequests'[FirstWithId(webRequests, id)]
              contentLength == FindContentLength(CompletedDetails[lastOp'.arg].responseHeaders)
              text == IF IsSome(contentLength) /\ IsSome(Get(contentLength).value)
                      THEN Get(Get(contentLength).value) ELSE <<>>
          IN IF IsIntegerText(text)
             THEN q.size = Some(Num(DecimalValue(text, 0)))
             ELSE q.size = None]_vars

(* C16: the record of an id that had no completed and no errored event     *)
(* since its start has neither status nor duration, and a record without   *)
(* status stays in the ledger, without status and duration, through every  *)
(* step but a clear, the start that evicts it from the full ledger, and    *)
(* the terminal event of its id that findIndex leads to it.  (Only the     *)
(* records a step does not hand on unchanged need the comparison field by  *)
(* field.)                                                                 *)
InFlightPersistence ==
  /\ \A id \in Ids :
       (InFlight(exch[id]) /\ HasRecord(webRequests, id))
       => LET r == webRequests[FirstWithId(webRequests, id)]
          IN r.status = None /\ r.duration = None
  /\ [][\A i \in 1..Len(webRequests) :
         LET r == webRequests[i]
             j == IF lastOp'.op = "onBeforeRequest" THEN i + 1 ELSE i
         IN (/\ r.status = None
             /\ (j > Len(webRequests') \/ webRequests'[j] /= r)
             /\ lastOp'.op /= "CLEAR_WEB_REQUESTS"
             /\ ~(lastOp'.op = "onBeforeRequest" /\ i >= MAX_RECORDS)
             /\ ~(/\ lastOp'.op \in {"onCompleted", "onErrorOccurred"}
                  /\ lastOp'.id = r.id
                  /\ i = FirstWithId(webRequests, r.id)))
            => /\ j <= Len(webRequests')
               /\ webRequests'[j].id = r.id
               /\ webRequests'[j].timestamp = r.timestamp
               /\ webRequests'[j].status = None
               /\ webRequests'[j].duration = None]_vars

(* The record of id 1 is in flight, with its request headers, behind the   *)
(* record of id 2, which has just got its terminal event.                  *)
InFlightWitness ==
  /\ lastOp.op \in {"onCompleted", "onErrorOccurred"} /\ lastOp.id = 2 /\ lastOp.idx >= 1
  /\ InFlight(exch[1])
  /\ HasRecord(webRequests, 1)
  /\ LET r == webRequests[FirstWithId(webRequests, 1)]
     IN r.status = None /\ r.duration = None /\ IsSome(r.requestHeaders)

(* C17: a call of getWebRequests or clearWebRequests settles its promise   *)
(* once.  It rejects, with an error, when the channel reports lastError,   *)
(* when no response arrives or when the response has success false;        *)
(* otherwise getWebRequests resolves with the data of the response, or     *)
(* with an empty list when the response has none, and clearWebRequests     *)
(* resolves with no value.                                                 *)
ClientOutcome ==
  promise.call /= "none" =>
    /\ Len(promise.settles) = 1
    /\ LET s == promise.settles[1]
           response == promise.response
       IN IF IsSome(promise.lastError) \/ ~IsSome(response) \/ ~Get(response).success
          THEN s.kind = "reject" /\ s.message /= ""
          ELSE /\ s.kind = "resolve"
               /\ promise.call = "getWebRequests"
                    => s.value = Some(IF IsSome(Get(response).data)
                                      THEN Get(Get(response).data) ELSE <<>>)
               /\ promise.call = "clearWebRequests" => s.value = None

(* getWebRequests resolved with the record of a completed exchange, as the *)
(* listener answered it.                                                   *)
ClientOutcomeWitness ==
  /\ promise.call = "getWebRequests"
  /\ lastOp.op = "GET_WEB_REQUESTS" /\ lastOp.arg = 0
  /\ promise.settles = << Resolve(Some(snapshot.data)) >>
  /\ Len(snapshot.data) = 1
  /\ snapshot.data[1].status = Some(200)

(* Bytes that are the UTF-8 form of a text.  The chunks of the tables hold *)
(* single bytes only: a byte below 128 is a character, a byte from 128 on  *)
(* is no character by itself.                                              *)
IsText(bytes) == \A k \in 1..Len(bytes) : bytes[k] < 128

(* The body carries a raw chunk that is not the encoding of a text. *)
FailsTextDecoding(body) ==
  /\ IsSome(body)
  /\ IsSome(Get(body).raw)
  /\ \E k \in 1..Len(Get(Get(body).raw)) :
       LET chunk == Get(Get(body).raw)[k]
       IN chunk.kind = "other" \/ (chunk.kind = "buffer" /\ ~IsText(chunk.bytes))

(* C18: a start whose body has a raw chunk that fails text decoding        *)
(* inserts its record, with the requestBody "[Binary data]".               *)
BinaryBody ==
  [][\A k \in 1..Len(StartDetails) :
       (/\ lastOp'.op = "onBeforeRequest"
        /\ Len(webRequests') >= 1
        /\ webRequests'[1].url = StartDetails[k].url
        /\ webRequests'[1].method = StartDetails[k].method
        /\ FailsTextDecoding(StartDetails[k].requestBody))
       => /\ webRequests'[1].id = lastOp'.id
          /\ webRequests'[1].requestBody = Some(BinaryData)]_vars

(* C19: a record is updated by one terminal event at most: a completed or  *)
(* errored event for the id of a record that has its status from an        *)
(* earlier terminal event leaves status, statusText, duration and error of *)
(* that record as they are.                                                *)
SingleTerminalOutcome ==
  [][\A id \in Ids :
       (/\ lastOp'.op \in {"onCompleted", "onErrorOccurred"}
        /\ lastOp'.id = id
        /\ HasRecord(webRequests, id)
        /\ exch[id].phase \in {"completed", "errored"}
        /\ IsSome(webRequests[FirstWithId(webRequests, id)].status))
       => LET i == FirstWithId(webRequests, id)
              r == webRequests[i]
              q == webRequests'[i]
          IN /\ q.status = r.status
             /\ q.statusText = r.statusText
             /\ q.duration = r.duration
             /\ q.error = r.error]_vars

(* The record as it was before its terminal event, when that event was the *)
(* first event after the start.                                            *)
BeforeTerminal(r) ==
  [r EXCEPT !.status = None, !.statusText = None, !.duration = None, !.size = None,
            !.responseHeaders = None, !.fromCache = None, !.error = None]

(* C20: headers-sent for an id whose record already has its terminal event *)
(* changes requestHeaders of that record and nothing else, in that record  *)
(* or in another; and when the terminal event came right after the start   *)
(* and right before the headers-sent, the record is the one that           *)
(* headers-sent followed by the same terminal event gives.                 *)
HeadersOrderTolerance ==
  [][\A id \in Ids :
       (/\ lastOp'.op = "onBeforeSendHeaders"
        /\ lastOp'.id = id
        /\ HasRecord(webRequests, id)
        /\ IsSome(webRequests[FirstWithId(webRequests, id)].status))
       => LET i == FirstWithId(webRequests, id)
              r == webRequests[i]
              q == webRequests'[i]
              headers == HeadersObject(HeaderInputs[lastOp'.arg])
              first == /\ lastOp.id = id /\ lastOp.idx = i /\ ~lastOp.escaped
                       /\ exch[id].h = 0
              duration == Some(now - exch[id].t1)
          IN /\ q.requestHeaders = Some(headers)
             /\ q = [r EXCEPT !.requestHeaders = q.requestHeaders]
             /\ Len(webRequests') = Len(webRequests)
             /\ \A j \in 1..Len(webRequests) : j /= i => webRequests'[j] = webRequests[j]
             /\ (first /\ lastOp.op = "onCompleted" /\ exch[id].phase = "completed")
                  => q = CompletedRecord(HeadersRecord(BeforeTerminal(r), headers),
                                         CompletedDetails[lastOp.arg], duration)
             /\ (first /\ lastOp.op = "onErrorOccurred" /\ exch[id].phase = "errored")
                  => q = ErroredRecord(HeadersRecord(BeforeTerminal(r), headers),
                                       ErrorInputs[lastOp.arg], duration)]_vars

(* Start, completed one clock tick later, then headers-sent: the record    *)
(* has the headers and keeps status, duration, size and response headers.  *)
HeadersOrderWitness ==
  /\ lastOp.op = "onBeforeSendHeaders" /\ lastOp.arg = 1 /\ lastOp.idx >= 1
  /\ lastOp.prev = "onCompleted"
  /\ exch[lastOp.id].h = 0
  /\ LET r == webRequests[lastOp.idx]
     IN /\ r.requestHeaders = Some(HeadersObject(HeaderInputs[1]))
        /\ r.status = Some(200)
        /\ r.duration = Some(1)
        /\ r.size = Some(Num(1234))
        /\ IsSome(r.responseHeaders)
        /\ r.fromCache = Some(FALSE)

(* The events that update a record, with the clock value the listener      *)
(* reads, which is never before the present one: headers-sent (no clock),  *)
(* completed and errored.                                                  *)
UpdateEvents ==
  [kind : {"onBeforeSendHeaders"}, arg : 1..Len(HeaderInputs), t : {0}]
    \cup [kind : {"onCompleted"}, arg : 1..Len(CompletedInputs), t : now..MaxClock]
    \cup [kind : {"onErrorOccurred"}, arg : 1..Len(ErrorInputs), t : now..MaxClock]

(* The ledger and the correlation table after the listener of the event    *)
(* ran for the id.                                                         *)
Ingest(st, id, ev) ==
  IF ev.kind = "onBeforeSendHeaders"
  THEN [ledger |-> HeadersSentLedger(st.ledger, id, ev.arg), table |-> st.table]
  ELSE IF ev.kind = "onCompleted"
  THEN [ledger |-> CompletedLedger(st.ledger, st.table, id, ev.arg, ev.t),
        table |-> MapDelete(st.table, id)]
  ELSE [ledger |-> ErroredLedger(st.ledger, st.table, id, ev.arg, ev.t),
        table |-> MapDelete(st.table, id)]

(* C21: an update event for an id B with a record in the ledger leaves     *)
(* every record of another id as it is; for every other id A with a record *)
(* and every update event for A, the event for A after the one for B gives *)
(* the ledger and table that the event for B gives after the one for A     *)
(* (each listener reading the same clock value in both orders); and a      *)
(* headers-sent event delivered once more changes nothing.                 *)
InterleavingIndependence ==
  [][\A B \in Ids :
       (/\ lastOp'.op \in {"onBeforeSendHeaders", "onCompleted", "onErrorOccurred"}
        /\ lastOp'.id = B
        /\ HasRecord(webRequests, B))
       => LET before == [ledger |-> webRequests, table |-> requestStartTimes]
              after == [ledger |-> webRequests', table |-> requestStartTimes']
              eB == [kind |-> lastOp'.op, arg |-> lastOp'.arg, t |-> now']
          IN /\ Len(webRequests') = Len(webRequests)
             /\ \A i \in 1..Len(webRequests) :
                  webRequests[i].id /= B => webRequests'[i] = webRequests[i]
             /\ \A A \in Ids \ {B} :
                  HasRecord(webRequests, A)
                  => \A eA \in UpdateEvents :
                       Ingest(after, A, eA) = Ingest(Ingest(before, A, eA), B, eB)
             /\ lastOp'.op = "onBeforeSendHeaders" => Ingest(after, B, eB) = after]_vars

(* Headers-sent reached the record of one id, behind the record of another *)
(* id, which it left without request headers.                              *)
InterleavingWitness ==
  /\ lastOp.op = "onBeforeSendHeaders" /\ lastOp.idx = 2
  /\ Len(webRequests) = 2
  /\ webRequests[1].id /= webRequests[2].id
  /\ IsSome(webRequests[2].requestHeaders)
  /\ webRequests[1].requestHeaders = None

(* C22: after a completed or errored event for an id, requestStartTimes    *)
(* has no entry for that id, whether the listener found a record of the id *)
(* in the ledger or not.                                                   *)
CorrelationCleanup ==
  lastOp.op \in {"onCompleted", "onErrorOccurred"} => lastOp.id \notin DOMAIN requestStartTimes

(* The terminal event of an exchange in flight whose record the cap had    *)
(* dropped from the full ledger: no record found, the entry gone.          *)
CorrelationCleanupWitness ==
  /\ lastOp.op \in {"onCompleted", "onErrorOccurred"}
  /\ lastOp.idx = -1
  /\ exch[lastOp.id].phase \in {"completed", "errored"}
  /\ Len(webRequests) = MAX_RECORDS
  /\ ~HasRecord(webRequests, lastOp.id)
  /\ lastOp.id \notin DOMAIN requestStartTimes

(* C23: a start event puts one new record at the head of the ledger, with *)
(* the id, url, method and type of the event, the clock value as           *)
(* timestamp, the initiator and the request body as the listener computes  *)
(* them, and status, statusText, duration, size, requestHeaders,           *)
(* responseHeaders, responseBody, fromCache and error absent; the table    *)
(* maps the id to the start time and keeps its other entries; and every    *)
(* record that was in the ledger follows one place further, as it was.     *)
StartEffect ==
  [][lastOp'.op = "onBeforeRequest"
     => LET r == webRequests'[1]
            id == lastOp'.id
        IN /\ Len(webRequests') = Min(Len(webRequests) + 1, MAX_RECORDS)
           /\ r.id = id /\ r.timestamp = now'
           /\ \E k \in 1..Len(StartDetails) :
                /\ r.url = StartDetails[k].url
                /\ r.method = StartDetails[k].method
                /\ r.type = StartDetails[k].type
                /\ r.initiator = InitiatorUrl(StartDetails[k].initiator)
                /\ r.requestBody = RequestBodyOf(StartDetails[k].requestBody)
           /\ r.status = None /\ r.statusText = None /\ r.duration = None
           /\ r.size = None /\ r.requestHeaders = None /\ r.responseHeaders = None
           /\ r.responseBody = None /\ r.fromCache = None /\ r.error = None
           /\ DOMAIN requestStartTimes' = DOMAIN requestStartTimes \cup {id}
           /\ requestStartTimes'[id] = exch'[id].t1
           /\ now <= requestStartTimes'[id] /\ requestStartTimes'[id] <= now'
           /\ \A k \in DOMAIN requestStartTimes \ {id} :
                requestStartTimes'[k] = requestStartTimes[k]
           /\ \A i \in 1..Len(webRequests) :
                i + 1 <= MAX_RECORDS => webRequests'[i + 1] = webRequests[i]]_vars

(* A start with a request body arrived in front of a completed record. *)
StartEffectWitness ==
  /\ lastOp.op = "onBeforeRequest"
  /\ Len(webRequests) = 2
  /\ IsSome(webRequests[1].requestBody) /\ webRequests[1].status = None
  /\ IsSome(webRequests[2].status) /\ IsSome(webRequests[2].responseHeaders)

(* C24: a start event for an id that has a record in the ledger, in       *)
(* flight or terminated, puts a further record of that id at the head, a   *)
(* record without status; the records the ledger had, those of the id      *)
(* among them, follow with every field as it was; and the table entry of   *)
(* the id is the start time of the new event.                              *)
IdReuseOnStart ==
  [][(lastOp'.op = "onBeforeRequest" /\ HasRecord(webRequests, lastOp'.id))
     => LET id == lastOp'.id
            WithId(arr) == {i \in 1..Len(arr) : arr[i].id = id}
        IN /\ webRequests'[1].id = id
           /\ webRequests'[1].status = None /\ webRequests'[1].requestHeaders = None
           /\ webRequests'[1].timestamp = now'
           /\ Len(webRequests) < MAX_RECORDS
              => /\ Cardinality(WithId(webRequests')) = Cardinality(WithId(webRequests)) + 1
                 /\ \A i \in 1..Len(webRequests) : webRequests'[i + 1] = webRequests[i]
           /\ requestStartTimes'[id] = exch'[id].t1]_vars

(* The id started a second time while its record was in the ledger, at a   *)
(* later clock value than the entry the table had.                         *)
IdReuseWitness ==
  /\ lastOp.op = "onBeforeRequest"
  /\ Len(webRequests) = 2
  /\ webRequests[1].id = webRequests[2].id
  /\ webRequests[1].status = None
  /\ webRequests[2].timestamp < webRequests[1].timestamp
  /\ requestStartTimes[webRequests[1].id] > webRequests[2].timestamp

(* C25: a headers-sent event for an id without a record leaves the ledger *)
(* as it is; for an id with a record, the record's requestHeaders have     *)
(* every name of the event with the value of its last occurrence in the    *)
(* event, and every name the record had from an earlier headers-sent event *)
(* that the event does not carry, with the value it had.                   *)
HeadersSentMerge ==
  [][lastOp'.op = "onBeforeSendHeaders"
     => IF ~HasRecord(webRequests, lastOp'.id)
        THEN webRequests' = webRequests
        ELSE LET i == FirstWithId(webRequests, lastOp'.id)
                 old == webRequests[i].requestHeaders
                 event == HeadersObject(HeaderInputs[lastOp'.arg])
             IN /\ IsSome(webRequests'[i].requestHeaders)
                /\ LET new == Get(webRequests'[i].requestHeaders)
                   IN /\ \A n \in DOMAIN event : n \in DOMAIN new /\ new[n] = event[n]
                      /\ IsSome(old)
                         => \A n \in DOMAIN Get(old) \ DOMAIN event :
                              n \in DOMAIN new /\ new[n] = Get(old)[n]]_vars

(* The ids of the records, in the order of the ledger *)
IdsOf(arr) == [i \in 1..Len(arr) |-> arr[i].id]

(* C26: headers-sent, completed, errored and GET_WEB_REQUESTS leave the    *)
(* number of records and the sequence of their ids as they are; and a step *)
(* after which a record of the ledger is missing is either a start on a    *)
(* full ledger, which drops the last record and keeps the others in their  *)
(* order behind the new one, or CLEAR_WEB_REQUESTS, which drops them all.  *)
RemovalOnlyByEvictionOrClear ==
  [][/\ lastOp'.op \in {"onBeforeSendHeaders", "onCompleted", "onErrorOccurred",
                        "GET_WEB_REQUESTS"}
        => IdsOf(webRequests') = IdsOf(webRequests)
     /\ IdsOf(webRequests') = IdsOf(webRequests)
        \/ /\ lastOp'.op = "onBeforeRequest"
           /\ Len(webRequests') = Min(Len(webRequests) + 1, MAX_RECORDS)
           /\ SubSeq(webRequests', 2, Len(webRequests'))
                = SubSeq(webRequests, 1, Len(webRequests') - 1)
        \/ /\ lastOp'.op = "CLEAR_WEB_REQUESTS"
           /\ webRequests' = <<>>]_vars

(* A terminal event updated the oldest record of a full ledger, which kept *)
(* its place.                                                              *)
RemovalWitness ==
  /\ lastOp.op \in {"onCompleted", "onErrorOccurred"}
  /\ Len(webRequests) = MAX_RECORDS
  /\ lastOp.idx = MAX_RECORDS
  /\ IsSome(webRequests[MAX_RECORDS].status)

(* C27: when several records of the ledger have the id of a headers-sent,  *)
(* completed or errored event, the event updates the first of them in the  *)
(* order of the ledger, the one inserted last, and every older record of   *)
(* that id, like every other record, stays as it was.                      *)
DuplicateIdTarget ==
  [][\A id \in Ids :
       LET same == {i \in 1..Len(webRequests) : webRequests[i].id = id}
       IN (/\ lastOp'.op \in {"onBeforeSendHeaders", "onCompleted", "onErrorOccurred"}
           /\ lastOp'.id = id
           /\ Cardinality(same) >= 2)
          => \E first \in same :
               /\ \A i \in same : first <= i
               /\ \A i \in same : webRequests[first].timestamp >= webRequests[i].timestamp
               /\ Len(webRequests') = Len(webRequests)
               /\ \A i \in 1..Len(webRequests) :
                    i /= first => webRequests'[i] = webRequests[i]
               /\ LET q == webRequests'[first]
                  IN CASE lastOp'.op = "onBeforeSendHeaders"
                            -> q.requestHeaders = Some(HeadersObject(HeaderInputs[lastOp'.arg]))
                       [] lastOp'.op = "onCompleted"
                            -> q.status = Some(CompletedInputs[lastOp'.arg].statusCode)
                       [] lastOp'.op = "onErrorOccurred"
                            -> q.status = Some(0) /\ q.error = Some(ErrorInputs[lastOp'.arg])]_vars

(* A completed event met two in-flight records of its id: the newer one    *)
(* has the status, the older one none.                                     *)
DuplicateIdWitness ==
  /\ lastOp.op = "onCompleted" /\ lastOp.idx = 1
  /\ Len(webRequests) = 2
  /\ webRequests[1].id = webRequests[2].id
  /\ IsSome(webRequests[1].status)
  /\ webRequests[2].status = None

(* The place of the record i of the ledger after the step: one further    *)
(* after a start, the same after any other event.                          *)
PlaceAfter(i) == IF lastOp'.op = "onBeforeRequest" THEN i + 1 ELSE i

(* Status and duration of every record that has a status are the same     *)
(* after the step, as long as the record is in the ledger.                 *)
TerminalFieldsKept ==
  \A i \in 1..Len(webRequests) :
    (IsSome(webRequests[i].status) /\ PlaceAfter(i) <= Len(webRequests'))
    => /\ webRequests'[PlaceAfter(i)].id = webRequests[i].id
       /\ webRequests'[PlaceAfter(i)].status = webRequests[i].status
       /\ webRequests'[PlaceAfter(i)].duration = webRequests[i].duration

DarkModeFollowsSystem ==
  [][lastOp'.op = "setSystemDarkMode"
     => /\ store'.systemDarkMode = Booleans[lastOp'.arg]
        /\ store'.darkMode = IF storeLog.manual THEN store.darkMode
                             ELSE Booleans[lastOp'.arg]]_vars

(* C30: setActiveTab(t) sets activeTab to t, empties the type filters when *)
(* t is cookies or localStorage and leaves them as they are when t is      *)
(* webRequests; and in every state with another active tab than            *)
(* webRequests the type filters are empty unless                           *)
(* toggleWebRequestTypeFilter was called since the last setActiveTab.      *)
TabSwitchClearsFilters ==
  /\ (store.activeTab /= "webRequests" /\ ~storeLog.toggled)
       => store.webRequestTypeFilters = {}
  /\ [][lastOp'.op = "setActiveTab"
         => LET t == TabNames[lastOp'.arg]
            IN /\ store'.activeTab = t
               /\ t \in {"cookies", "localStorage"} => store'.webRequestTypeFilters = {}
               /\ t = "webRequests"
                  => store'.webRequestTypeFilters = store.webRequestTypeFilters]_vars

(* The user switched to the localStorage tab with both type filters        *)
(* chosen: they are gone, the other fields of the store as they were set.  *)
TabSwitchWitness ==
  /\ lastOp.op = "setActiveTab" /\ lastOp.prev = "toggleWebRequestTypeFilter"
  /\ store.activeTab = "localStorage"
  /\ storeLog.before = {"script", "xmlhttprequest"}
  /\ store.webRequestTypeFilters = {}
  /\ store.searchTerm = "api" /\ store.darkMode

====
